---- MODULE Spec2Model ----
(***************************************************************************)
(* Accounting core of the AI-Chef bot: the SQLite balance store            *)
(* (database.py), the payment ledger and its two settlement callers        *)
(* (bot.check_payment, api/main.yookassa_webhook) and the usage            *)
(* orchestrator (bot._generate_recipe_for_user).                           *)
(*                                                                         *)
(* Every database function opens its own connection.  Python's sqlite3     *)
(* runs a SELECT outside any transaction and opens a transaction           *)
(* implicitly before the first INSERT/UPDATE; the writes of a connection   *)
(* become visible to the others at commit, and SQLite admits one writer at *)
(* a time.  users/payments/recipes are the committed database, txOwner     *)
(* holds the write lock and wUsers/wPayments/wRecipes are the open         *)
(* transaction's view.  Every await is a point where another task (or      *)
(* another process on the same database file) may run.                     *)
(***************************************************************************)
EXTENDS Integers, FiniteSets, Sequences, TLC

\* ---------------------------------------------------------------------
\* Bounds of the model
\* ---------------------------------------------------------------------
NUsers == 2
NPids == 1
NTasks == 3
NConcTasks == 2
NConcUsers == 1
MaxB == 3
MaxBalance == 13
MaxRecipes == 4
MaxTime == 93

Users == 1..NUsers
Pids == 1..NPids
Tasks == 1..NTasks
ConcTasks == 1..NConcTasks
ConcUsers == 1..NConcUsers

\* ---------------------------------------------------------------------
\* Configuration (config.py): the free-trial grant and the package catalogue
\* ---------------------------------------------------------------------
FREE_RECIPES_ON_START == 3

PACKAGES == [start |-> [price |-> 199, recipes |-> 10]]

PackageKeys == DOMAIN PACKAGES

\* config.RATE_LIMIT_SECONDS: the cooldown between two recorded requests
RATE_LIMIT_SECONDS == 30

NoTask == 0
NoPid == 0
NoUid == 0
NoStamp == 0 - 1

VARIABLES
    users,          \* table users, committed: user_id -> row
    payments,       \* table payments, committed: payment_id -> row
    recipes,        \* table recipes, committed: user_id -> number of rows
    txOwner,        \* the task whose connection holds the write lock, or NoTask
    wUsers,         \* users as seen inside the open transaction
    wPayments,      \* payments as seen inside the open transaction
    wRecipes,       \* recipes as seen inside the open transaction
    task,           \* per task: the running call, its position and its locals
    credits,        \* history: committed credits applied for the current record of a payment id
    lostCredit,     \* history: a crediting settlement committed while the owner had no row
    lastSettle,     \* history: status argument of the last committed settlement of the current record
    aborted,        \* history: a settlement of the id died between its credit UPDATE and its commit
    granted,        \* history: user_id -> units of the committed settlements that credited the row
    debited,        \* history: user_id -> number of deduct_token calls that returned true
    last_request_time, \* bot.last_request_time: user_id -> time of the last recorded request
    now,            \* the clock, whole seconds
    frames,         \* history switch: the locals of a returned call stay observable
    k0,             \* closed debit scenario: the number of concurrent calls
    b0              \* closed debit scenario: the starting balance

dbVars == <<users, payments, recipes, txOwner, wUsers, wPayments, wRecipes>>
histVars == <<credits, lostCredit, lastSettle, aborted, granted, debited>>
limVars == <<last_request_time, now>>
debitVars == <<frames, k0, b0>>
vars == <<users, payments, recipes, txOwner, wUsers, wPayments, wRecipes,
          task, credits, lostCredit, lastSettle, aborted, granted, debited,
          last_request_time, now,
          frames, k0, b0>>

\* ---------------------------------------------------------------------
\* Rows
\* ---------------------------------------------------------------------
NoUser == [exists |-> FALSE, tokens_balance |-> 0, total_spent |-> 0, total_recipes |-> 0]

NewUser == [exists |-> TRUE, tokens_balance |-> FREE_RECIPES_ON_START,
            total_spent |-> 0, total_recipes |-> 0]

NoPayment == [exists |-> FALSE, user_id |-> 0, package_key |-> "", amount |-> 0,
              recipes_count |-> 0, status |-> ""]

Min(a, b) == IF a < b THEN a ELSE b
Max(a, b) == IF a > b THEN a ELSE b

\* A task that runs nothing: a fresh connection-less coroutine.
Idle == [op |-> "", pc |-> "idle", user_id |-> 0, payment_id |-> 0, status |-> "",
         package_key |-> "", count |-> 0, balance |-> 0, generated |-> FALSE,
         found |-> FALSE, current_status |-> "", row_user |-> 0, row_count |-> 0,
         row_amount |-> 0,
         ok |-> FALSE, val |-> 0, raised |-> FALSE, failed |-> "",
         reply |-> "", retry |-> FALSE,
         credited |-> FALSE, lost |-> FALSE, prior |-> "", before |-> NoUser]

Free(t) == task[t].pc \in {"idle", "done"}

\* the call of task t returns: its frame is gone, unless it is kept for observation
Return(r) == IF frames THEN [r EXCEPT !.pc = "done"] ELSE Idle

\* the row of a user as the call found it, kept with the frame
Snap(row) == IF frames THEN row ELSE NoUser

\* the caller's next position, or the return of the call
Goto(r, pc) == IF pc = "done" THEN Return(r) ELSE [r EXCEPT !.pc = pc]

Quiet == \A t \in Tasks : Free(t)

\* ---------------------------------------------------------------------
\* Connections and transactions (sqlite3 implicit transaction control)
\* ---------------------------------------------------------------------
\* the first INSERT/UPDATE of a connection takes the write lock
CanWrite(t) == txOwner \in {NoTask, t}

\* conn.commit(): the transaction's view becomes the committed database
CommitTx(t) ==
    /\ txOwner = t
    /\ users' = wUsers
    /\ payments' = wPayments
    /\ recipes' = wRecipes
    /\ txOwner' = NoTask
    /\ UNCHANGED <<wUsers, wPayments, wRecipes>>

\* the connection is closed without commit (exception, process death)
RollbackTx(t) ==
    IF txOwner = t
    THEN /\ wUsers' = users
         /\ wPayments' = payments
         /\ wRecipes' = recipes
         /\ txOwner' = NoTask
         /\ UNCHANGED <<users, payments, recipes>>
    ELSE UNCHANGED dbVars

\* ---------------------------------------------------------------------
\* database.deduct_token
\* ---------------------------------------------------------------------
\* WHERE user_id = ? AND tokens_balance > 0
DeductWhere_NoGuard(row) == row.exists /\ row.tokens_balance >= 0

DeductWhere(row) == row.exists /\ row.tokens_balance > 0

\* SET tokens_balance = tokens_balance - 1, total_recipes = total_recipes + 1
DeductSet_NoCount(row) == [row EXCEPT !.tokens_balance = @ - 1]

DeductSet(row) == [row EXCEPT !.tokens_balance = @ - 1, !.total_recipes = @ + 1]

\* where the caller of deduct_token resumes
AfterDeduct(t) == IF task[t].op = "recipe" THEN "recipe_debited" ELSE "done"

\* the UPDATE statement: one atomic statement under the write lock
DeductExecute(t) ==
    /\ task[t].pc = "deduct_execute"
    /\ CanWrite(t)
    /\ LET u == task[t].user_id
           hit == DeductWhere(wUsers[u])
       IN /\ wUsers' = IF hit THEN [wUsers EXCEPT ![u] = DeductSet(@)] ELSE wUsers
          /\ task' = [task EXCEPT ![t].pc = "deduct_commit", ![t].ok = hit]
    /\ txOwner' = t
    /\ UNCHANGED <<users, payments, recipes, wPayments, wRecipes, histVars, limVars, debitVars>>

\* db.commit(); return cursor.rowcount > 0
DeductCommit(t) ==
    /\ task[t].pc = "deduct_commit"
    /\ CommitTx(t)
    /\ debited' = [debited EXCEPT ![task[t].user_id] = @ + IF task[t].ok THEN 1 ELSE 0]
    /\ task' = [task EXCEPT ![t] = Goto(@, AfterDeduct(t))]
    /\ UNCHANGED <<credits, lostCredit, lastSettle, aborted, granted, limVars, debitVars>>

\* a direct call of deduct_token(user_id)
CallDeductToken(t, u) ==
    /\ Free(t)
    /\ task' = [task EXCEPT ![t] = [Idle EXCEPT !.op = "deduct_token", !.pc = "deduct_execute",
                                                !.user_id = u, !.before = Snap(users[u])]]
    /\ UNCHANGED <<dbVars, histVars, limVars, debitVars>>

\* ---------------------------------------------------------------------
\* Closed scenario: k0 concurrent deduct_token calls against balance b0
\* ---------------------------------------------------------------------
\* the one account the calls debit
DebitUser == CHOOSE u \in Users : \A v \in Users : u <= v

InitDebit ==
    /\ b0 \in 1..MaxB
    /\ k0 \in 1..NTasks
    /\ frames = TRUE
    /\ users = [u \in Users |-> IF u = DebitUser
                                 THEN [NewUser EXCEPT !.tokens_balance = b0]
                                 ELSE NoUser]
    /\ payments = [p \in Pids |-> NoPayment]
    /\ recipes = [u \in Users |-> 0]
    /\ txOwner = NoTask
    /\ wUsers = users
    /\ wPayments = payments
    /\ wRecipes = recipes
    /\ task = [t \in Tasks |-> Idle]
    /\ credits = [p \in Pids |-> 0]
    /\ lostCredit = [p \in Pids |-> FALSE]
    /\ lastSettle = [p \in Pids |-> ""]
    /\ aborted = [p \in Pids |-> FALSE]
    /\ granted = [u \in Users |-> 0]
    /\ debited = [u \in Users |-> 0]
    /\ last_request_time = [u \in Users |-> NoStamp]
    /\ now = 0

DebitStart ==
    \E t \in 1..k0 :
        /\ task[t].pc = "idle"
        /\ CallDeductToken(t, DebitUser)

DebitExecute == \E t \in Tasks : DeductExecute(t)

DebitCommit == \E t \in Tasks : DeductCommit(t)

NextDebit == DebitStart \/ DebitExecute \/ DebitCommit

SpecDebit == InitDebit /\ [][NextDebit]_vars

DebitsDone == \A t \in 1..k0 : task[t].pc = "done"

Returned(b) == Cardinality({t \in 1..k0 : task[t].pc = "done" /\ task[t].ok = b})

\* C1: k0 concurrent deduct_token calls against balance b0 > 0: once all have
\* returned, exactly min(k0, b0) returned true, the others false, and the
\* balance is max(b0 - k0, 0); while they run, no more than b0 have returned
\* true and the committed balance is b0 minus the committed debits.
C1_ConcurrentDebits ==
    /\ Returned(TRUE) <= Min(k0, b0)
    /\ users[DebitUser].tokens_balance >= 0
    /\ DebitsDone =>
          /\ Returned(TRUE) = Min(k0, b0)
          /\ Returned(FALSE) = k0 - Min(k0, b0)
          /\ users[DebitUser].tokens_balance = Max(b0 - k0, 0)
          /\ users[DebitUser].total_recipes = Min(k0, b0)

\* two concurrent debits against balance 1 have both returned: one true, one false
C1_Witness ==
    /\ b0 = 1
    /\ k0 = 2
    /\ DebitsDone
    /\ Returned(TRUE) = 1
    /\ Returned(FALSE) = 1
    /\ users[DebitUser].tokens_balance = 0

\* ---------------------------------------------------------------------
\* database.get_user / get_balance
\* ---------------------------------------------------------------------
\* return user["tokens_balance"] if user else 0
BalanceOf_Default(row) == IF row.exists THEN row.tokens_balance ELSE FREE_RECIPES_ON_START

BalanceOf(row) == IF row.exists THEN row.tokens_balance ELSE 0

\* where the caller of get_balance resumes
AfterBalance(t) == IF task[t].op = "recipe" THEN "recipe_checked" ELSE "done"

\* one SELECT on a fresh connection: reads the committed row
GetBalance(t) ==
    /\ task[t].pc = "get_balance"
    /\ task' = [task EXCEPT ![t] =
                    Goto([@ EXCEPT !.val = BalanceOf(users[task[t].user_id])], AfterBalance(t))]
    /\ UNCHANGED <<dbVars, histVars, limVars, debitVars>>

CallGetBalance(t, u) ==
    /\ Free(t)
    /\ task' = [task EXCEPT ![t] = [Idle EXCEPT !.op = "get_balance", !.pc = "get_balance",
                                                !.user_id = u, !.before = Snap(users[u])]]
    /\ UNCHANGED <<dbVars, histVars, limVars, debitVars>>

\* ---------------------------------------------------------------------
\* database.get_or_create_user (called by cmd_start and handle_text)
\* ---------------------------------------------------------------------
\* SELECT * FROM users WHERE user_id = ?
GocuSelect(t) ==
    /\ task[t].pc = "gocu_select"
    /\ LET row == users[task[t].user_id]
       IN task' = [task EXCEPT ![t].found = row.exists,
                               ![t].val = row.tokens_balance,
                               ![t].pc = IF row.exists THEN "gocu_update" ELSE "gocu_insert"]
    /\ UNCHANGED <<dbVars, histVars, limVars, debitVars>>

\* UPDATE users SET last_seen, username, full_name: no accounting column changes
GocuUpdate(t) ==
    /\ task[t].pc = "gocu_update"
    /\ CanWrite(t)
    /\ txOwner' = t
    /\ task' = [task EXCEPT ![t].pc = "gocu_commit"]
    /\ UNCHANGED <<users, payments, recipes, wUsers, wPayments, wRecipes,
                   histVars, limVars, debitVars>>

\* INSERT INTO users (..., tokens_balance) VALUES (..., FREE_RECIPES_ON_START);
\* user_id is the primary key: a row inserted meanwhile makes the INSERT raise
GocuInsert(t) ==
    /\ task[t].pc = "gocu_insert"
    /\ CanWrite(t)
    /\ LET u == task[t].user_id
       IN IF wUsers[u].exists
          THEN /\ task' = [task EXCEPT ![t] = Return([@ EXCEPT !.raised = TRUE])]
               /\ UNCHANGED dbVars
          ELSE /\ wUsers' = [wUsers EXCEPT ![u] = NewUser]
               /\ txOwner' = t
               /\ task' = [task EXCEPT ![t].pc = "gocu_commit"]
               /\ UNCHANGED <<users, payments, recipes, wPayments, wRecipes>>
    /\ UNCHANGED <<histVars, limVars, debitVars>>

\* db.commit(); an existing user's row is returned as first read
GocuCommit(t) ==
    /\ task[t].pc = "gocu_commit"
    /\ CommitTx(t)
    /\ task' = [task EXCEPT ![t] = Goto(@, IF task[t].found THEN "done" ELSE "gocu_reselect")]
    /\ UNCHANGED <<histVars, limVars, debitVars>>

\* the new row is read back and returned
GocuReselect(t) ==
    /\ task[t].pc = "gocu_reselect"
    /\ task' = [task EXCEPT ![t] =
                    Return([@ EXCEPT !.val = users[task[t].user_id].tokens_balance])]
    /\ UNCHANGED <<dbVars, histVars, limVars, debitVars>>

CallGetOrCreateUser(t, u) ==
    /\ Free(t)
    /\ task' = [task EXCEPT ![t] = [Idle EXCEPT !.op = "get_or_create_user",
                                                !.pc = "gocu_select",
                                                !.user_id = u, !.before = Snap(users[u])]]
    /\ UNCHANGED <<dbVars, histVars, limVars, debitVars>>

\* ---------------------------------------------------------------------
\* database.add_tokens
\* ---------------------------------------------------------------------
\* UPDATE users SET tokens_balance = tokens_balance + ? WHERE user_id = ?
AddTokensExecute(t) ==
    /\ task[t].pc = "add_execute"
    /\ CanWrite(t)
    /\ LET u == task[t].user_id
       IN wUsers' = IF wUsers[u].exists
                    THEN [wUsers EXCEPT ![u].tokens_balance = @ + task[t].count]
                    ELSE wUsers
    /\ txOwner' = t
    /\ task' = [task EXCEPT ![t].pc = "add_commit"]
    /\ UNCHANGED <<users, payments, recipes, wPayments, wRecipes, histVars, limVars, debitVars>>

AddTokensCommit(t) ==
    /\ task[t].pc = "add_commit"
    /\ CommitTx(t)
    /\ task' = [task EXCEPT ![t] = Return(@)]
    /\ UNCHANGED <<histVars, limVars, debitVars>>

CallAddTokens(t, u, n) ==
    /\ Free(t)
    /\ task' = [task EXCEPT ![t] = [Idle EXCEPT !.op = "add_tokens", !.pc = "add_execute",
                                                !.user_id = u, !.count = n,
                                                !.before = Snap(users[u])]]
    /\ UNCHANGED <<dbVars, histVars, limVars, debitVars>>

\* ---------------------------------------------------------------------
\* database.save_payment
\* ---------------------------------------------------------------------
PaymentRow(u, key) ==
    [exists |-> TRUE, user_id |-> u, package_key |-> key,
     amount |-> PACKAGES[key].price, recipes_count |-> PACKAGES[key].recipes,
     status |-> "pending"]

\* INSERT OR REPLACE INTO payments (...) VALUES (?, ?, ?, ?, ?, 'pending')
SavePaymentExecute_Ignore(t) ==
    /\ task[t].pc = "sp_execute"
    /\ CanWrite(t)
    /\ wPayments' = IF wPayments[task[t].payment_id].exists
                    THEN wPayments
                    ELSE [wPayments EXCEPT ![task[t].payment_id] =
                             PaymentRow(task[t].user_id, task[t].package_key)]
    /\ txOwner' = t
    /\ task' = [task EXCEPT ![t].pc = "sp_commit"]
    /\ UNCHANGED <<users, payments, recipes, wUsers, wRecipes, histVars, limVars, debitVars>>

SavePaymentExecute(t) ==
    /\ task[t].pc = "sp_execute"
    /\ CanWrite(t)
    /\ wPayments' = [wPayments EXCEPT ![task[t].payment_id] =
                         PaymentRow(task[t].user_id, task[t].package_key)]
    /\ txOwner' = t
    /\ task' = [task EXCEPT ![t].pc = "sp_commit"]
    /\ UNCHANGED <<users, payments, recipes, wUsers, wRecipes, histVars, limVars, debitVars>>

\* db.commit(): the id now names a new record, with no settlement yet
SavePaymentCommit(t) ==
    /\ task[t].pc = "sp_commit"
    /\ CommitTx(t)
    /\ LET p == task[t].payment_id
       IN /\ credits' = [credits EXCEPT ![p] = 0]
          /\ lostCredit' = [lostCredit EXCEPT ![p] = FALSE]
          /\ lastSettle' = [lastSettle EXCEPT ![p] = ""]
          /\ aborted' = [aborted EXCEPT ![p] = FALSE]
    /\ task' = [task EXCEPT ![t] = Return(@)]
    /\ UNCHANGED <<granted, debited, limVars, debitVars>>

CallSavePayment(t, p, u, key) ==
    /\ Free(t)
    /\ task' = [task EXCEPT ![t] = [Idle EXCEPT !.op = "save_payment", !.pc = "sp_execute",
                                                !.payment_id = p, !.user_id = u,
                                                !.package_key = key, !.before = Snap(users[u])]]
    /\ UNCHANGED <<dbVars, histVars, limVars, debitVars>>

\* ---------------------------------------------------------------------
\* database.update_payment_status
\* ---------------------------------------------------------------------
\* if status == "succeeded" and current_status == "pending"
ShouldCredit_AnyCurrent(status, current_status) == status = "succeeded"

ShouldCredit(status, current_status) ==
    status = "succeeded" /\ current_status = "pending"

\* SET tokens_balance = tokens_balance + ?, total_spent = total_spent + ?
CreditSet_Swapped(row, recipes_count, amount) ==
    [row EXCEPT !.tokens_balance = @ + amount, !.total_spent = @ + recipes_count]

CreditSet(row, recipes_count, amount) ==
    [row EXCEPT !.tokens_balance = @ + recipes_count, !.total_spent = @ + amount]

\* where the caller of update_payment_status resumes
AfterUps(t) ==
    CASE task[t].op = "check_payment" -> "cp_balance"
      [] task[t].op = "webhook" -> IF task[t].user_id # NoUid THEN "wh_balance" ELSE "done"
      [] OTHER -> "done"

\* SELECT status, user_id, recipes_count, amount FROM payments WHERE payment_id = ?
\* on a fresh connection, outside any transaction; no row: log and return
UpsSelect(t) ==
    /\ task[t].pc = "ups_select"
    /\ LET p == task[t].payment_id
           row == payments[p]
       IN task' = [task EXCEPT ![t] =
            IF ~row.exists
            THEN Goto([@ EXCEPT !.found = FALSE], AfterUps(t))
            ELSE [@ EXCEPT !.found = TRUE,
                           !.current_status = row.status,
                           !.row_user = row.user_id,
                           !.row_count = row.recipes_count,
                           !.row_amount = row.amount,
                           !.prior = lastSettle[p],
                           !.before = Snap(users[row.user_id]),
                           !.pc = IF ShouldCredit(task[t].status, row.status)
                                  THEN "ups_credit" ELSE "ups_status"]]
    /\ UNCHANGED <<dbVars, histVars, limVars, debitVars>>

\* UPDATE users SET ... WHERE user_id = ?: opens the transaction
UpsCredit_Autocommit(t) ==
    /\ task[t].pc = "ups_credit"
    /\ CanWrite(t)
    /\ LET u == task[t].row_user
           hit == wUsers[u].exists
           new == IF hit
                  THEN [wUsers EXCEPT ![u] = CreditSet(@, task[t].row_count, task[t].row_amount)]
                  ELSE wUsers
       IN /\ wUsers' = new
          /\ users' = new
          /\ credits' = [credits EXCEPT ![task[t].payment_id] = @ + IF hit THEN 1 ELSE 0]
          /\ granted' = [granted EXCEPT ![u] = @ + IF hit THEN task[t].row_count ELSE 0]
          /\ task' = [task EXCEPT ![t].credited = hit, ![t].lost = ~hit, ![t].pc = "ups_status"]
    /\ UNCHANGED <<payments, recipes, txOwner, wPayments, wRecipes,
                   lostCredit, lastSettle, aborted, debited, limVars, debitVars>>

UpsCredit(t) ==
    /\ task[t].pc = "ups_credit"
    /\ CanWrite(t)
    /\ LET u == task[t].row_user
           hit == wUsers[u].exists
       IN /\ wUsers' = IF hit
                       THEN [wUsers EXCEPT ![u] =
                                CreditSet(@, task[t].row_count, task[t].row_amount)]
                       ELSE wUsers
          /\ task' = [task EXCEPT ![t].credited = hit, ![t].lost = ~hit, ![t].pc = "ups_status"]
    /\ txOwner' = t
    /\ UNCHANGED <<users, payments, recipes, wPayments, wRecipes, histVars, limVars, debitVars>>

\* UPDATE payments SET status = ? WHERE payment_id = ?
UpsStatus(t) ==
    /\ task[t].pc = "ups_status"
    /\ CanWrite(t)
    /\ wPayments' = [wPayments EXCEPT ![task[t].payment_id].status = task[t].status]
    /\ txOwner' = t
    /\ task' = [task EXCEPT ![t].pc = "ups_commit"]
    /\ UNCHANGED <<users, payments, recipes, wUsers, wRecipes, histVars, limVars, debitVars>>

\* conn.commit(): the credit and the status become durable together
UpsCommit(t) ==
    /\ task[t].pc = "ups_commit"
    /\ CommitTx(t)
    /\ LET p == task[t].payment_id
           u == task[t].row_user
       IN /\ credits' = [credits EXCEPT ![p] = @ + IF wUsers[u] # users[u] THEN 1 ELSE 0]
          /\ lostCredit' = [lostCredit EXCEPT ![p] = @ \/ task[t].lost]
          /\ lastSettle' = [lastSettle EXCEPT ![p] = task[t].status]
          /\ granted' = [granted EXCEPT ![u] = @ + IF task[t].credited
                                                    THEN task[t].row_count ELSE 0]
    /\ task' = [task EXCEPT ![t] = Goto(@, AfterUps(t))]
    /\ UNCHANGED <<aborted, debited, limVars, debitVars>>

CallUpdatePaymentStatus(t, p, st) ==
    /\ Free(t)
    /\ task' = [task EXCEPT ![t] = [Idle EXCEPT !.op = "update_payment_status",
                                                !.pc = "ups_select",
                                                !.payment_id = p, !.status = st]]
    /\ UNCHANGED <<dbVars, histVars, limVars, debitVars>>

\* ---------------------------------------------------------------------
\* bot.check_payment (the user's "check payment" button)
\* ---------------------------------------------------------------------
Statuses == {"pending", "succeeded", "canceled"}

\* the button belongs to the purchase message in the purchaser's own chat
Presser(u, p) == payments[p].exists => u = payments[p].user_id

\* what Payment.find_one(payment_id) yields: the payment's status, or an exception
Replies == Statuses \cup {"error"}

\* payment.check_payment_status: a mock id is always paid; without the SDK
\* the answer is pending; an exception of the provider call is logged and
\* answered pending as well
check_payment_status_Optimistic(mock, available, reply) ==
    IF mock THEN "succeeded"
    ELSE IF ~available THEN "pending"
    ELSE IF reply = "error" THEN "succeeded" ELSE reply

check_payment_status(mock, available, reply) ==
    IF mock THEN "succeeded"
    ELSE IF ~available THEN "pending"
    ELSE IF reply = "error" THEN "pending" ELSE reply

\* the provider was asked and this is its answer ("" when it was not asked)
Asked(mock, available, reply) == IF mock \/ ~available THEN "" ELSE reply

\* the previous press of the button by this task was a check of the same
\* payment whose provider call failed
Retry(t, p) ==
    /\ task[t].op = "check_payment"
    /\ task[t].payment_id = p
    /\ task[t].reply = "error"

\* status = await pay.check_payment_status(payment_id); only "succeeded" is
\* settled, "canceled" and "pending" are answered with a message
CheckPayment(t, u, p, mock, available, reply) ==
    /\ Free(t)
    /\ Presser(u, p)
    /\ LET status == check_payment_status(mock, available, reply)
       IN task' = [task EXCEPT ![t] =
            Goto([Idle EXCEPT !.op = "check_payment", !.user_id = u, !.payment_id = p,
                              !.status = status,
                              !.reply = Asked(mock, available, reply),
                              !.retry = frames /\ Retry(t, p)],
                 IF status = "succeeded" THEN "ups_select" ELSE "done")]
    /\ UNCHANGED <<dbVars, histVars, limVars, debitVars>>

\* balance = await db.get_balance(user_id), shown in the success message
CheckPaymentBalance(t) ==
    /\ task[t].pc = "cp_balance"
    /\ task' = [task EXCEPT ![t] = Return([@ EXCEPT !.val = BalanceOf(users[task[t].user_id])])]
    /\ UNCHANGED <<dbVars, histVars, limVars, debitVars>>

\* ---------------------------------------------------------------------
\* api/main.yookassa_webhook (the provider's notification)
\* ---------------------------------------------------------------------
Events == {"payment.succeeded", "payment.canceled"}

\* if event == "payment.succeeded": if payment_id and status == "succeeded"
WebhookSettles(event, p, st) == event = "payment.succeeded" /\ p # NoPid /\ st = "succeeded"

\* metadata.user_id is what create_payment sent to the provider: the purchaser
Metadata(u, p) == (u # NoUid /\ p # NoPid) => Presser(u, p)

\* u is metadata.user_id of the notification (NoUid when absent)
YookassaWebhook(t, event, p, st, u) ==
    /\ Free(t)
    /\ Metadata(u, p)
    /\ task' = [task EXCEPT ![t] =
            Goto([Idle EXCEPT !.op = "webhook", !.user_id = u, !.payment_id = p,
                              !.status = st],
                 IF WebhookSettles(event, p, st) THEN "ups_select" ELSE "done")]
    /\ UNCHANGED <<dbVars, histVars, limVars, debitVars>>

\* balance = await db.get_balance(user_id), sent to the user
WebhookBalance(t) ==
    /\ task[t].pc = "wh_balance"
    /\ task' = [task EXCEPT ![t] = Return([@ EXCEPT !.val = BalanceOf(users[task[t].user_id])])]
    /\ UNCHANGED <<dbVars, histVars, limVars, debitVars>>

\* ---------------------------------------------------------------------
\* bot.process_purchase
\* ---------------------------------------------------------------------
\* the provider issues an identifier no record and no purchase in flight uses
FreshPid(p) ==
    /\ ~payments[p].exists
    /\ \A t \in Tasks : ~(task[t].op = "process_purchase" /\ task[t].pc # "done"
                          /\ task[t].payment_id = p)

\* payment_data = await pay.create_payment(user_id, package_key); db.save_payment(...)
ProcessPurchase(t, u, key, p) ==
    /\ Free(t)
    /\ key \in PackageKeys
    /\ FreshPid(p)
    /\ task' = [task EXCEPT ![t] = [Idle EXCEPT !.op = "process_purchase", !.pc = "sp_execute",
                                                !.payment_id = p, !.user_id = u,
                                                !.package_key = key]]
    /\ UNCHANGED <<dbVars, histVars, limVars, debitVars>>

\* ---------------------------------------------------------------------
\* database.save_recipe
\* ---------------------------------------------------------------------
\* INSERT INTO recipes (user_id, prompt, response) VALUES (?, ?, ?)
SaveRecipeExecute(t) ==
    /\ task[t].pc = "sr_execute"
    /\ CanWrite(t)
    /\ wRecipes' = [wRecipes EXCEPT ![task[t].user_id] = @ + 1]
    /\ txOwner' = t
    /\ task' = [task EXCEPT ![t].pc = "sr_commit"]
    /\ UNCHANGED <<users, payments, recipes, wUsers, wPayments, histVars, limVars, debitVars>>

SaveRecipeCommit(t) ==
    /\ task[t].pc = "sr_commit"
    /\ CommitTx(t)
    /\ task' = [task EXCEPT ![t].pc = "recipe_newbalance"]
    /\ UNCHANGED <<histVars, limVars, debitVars>>

\* ---------------------------------------------------------------------
\* bot.check_rate_limit / update_rate_limit
\* ---------------------------------------------------------------------
\* elapsed = now - last; wait = RATE_LIMIT_SECONDS - elapsed; int(wait) + 1 if wait > 0
check_rate_limit_Truncated(u) ==
    IF last_request_time[u] # NoStamp
    THEN LET elapsed == now - last_request_time[u]
             wait == RATE_LIMIT_SECONDS - elapsed
         IN IF wait > 0 THEN wait ELSE 0
    ELSE 0

check_rate_limit(u) ==
    IF last_request_time[u] # NoStamp
    THEN LET elapsed == now - last_request_time[u]
             wait == RATE_LIMIT_SECONDS - elapsed
         IN IF wait > 0 THEN wait + 1 ELSE 0
    ELSE 0

\* last_request_time[user_id] = datetime.now()
update_rate_limit(u) == [last_request_time EXCEPT ![u] = now]

\* ---------------------------------------------------------------------
\* bot._generate_recipe_for_user
\* ---------------------------------------------------------------------
\* if balance <= 0
OutOfRecipes_Strict(balance) == balance < 0

OutOfRecipes(balance) == balance <= 0

\* the request arrives: length validation and the rate-limit check run before
\* the first await; too_long stands for len(user_input) > MAX_PROMPT_LENGTH
Recipe_StampFirst(t, u, too_long) ==
    /\ Free(t)
    /\ LET wait_seconds == check_rate_limit(u)
           r == [Idle EXCEPT !.op = "recipe", !.user_id = u]
       IN task' = [task EXCEPT ![t] =
                      IF too_long THEN [r EXCEPT !.pc = "recipe_toolong"]
                      ELSE IF wait_seconds > 0
                           THEN [r EXCEPT !.pc = "recipe_wait", !.val = wait_seconds]
                           ELSE [r EXCEPT !.pc = "get_balance"]]
    /\ last_request_time' = update_rate_limit(u)
    /\ UNCHANGED <<dbVars, histVars, now, debitVars>>

Recipe(t, u, too_long) ==
    /\ Free(t)
    /\ LET wait_seconds == check_rate_limit(u)
           r == [Idle EXCEPT !.op = "recipe", !.user_id = u]
       IN task' = [task EXCEPT ![t] =
                      IF too_long THEN [r EXCEPT !.pc = "recipe_toolong"]
                      ELSE IF wait_seconds > 0
                           THEN [r EXCEPT !.pc = "recipe_wait", !.val = wait_seconds]
                           ELSE [r EXCEPT !.pc = "get_balance"]]
    /\ UNCHANGED <<dbVars, histVars, limVars, debitVars>>

\* balance = await db.get_balance(user_id); if balance <= 0: the upsell message
RecipeChecked(t) ==
    /\ task[t].pc = "recipe_checked"
    /\ task' = [task EXCEPT ![t].balance = task[t].val,
                            ![t].pc = IF OutOfRecipes(task[t].val)
                                      THEN "recipe_upsell" ELSE "recipe_thinking"]
    /\ UNCHANGED <<dbVars, histVars, limVars, debitVars>>

\* after the "thinking" message: update_rate_limit(user_id), then the backend is called
RecipeMark(t) ==
    /\ task[t].pc = "recipe_thinking"
    /\ last_request_time' = update_rate_limit(task[t].user_id)
    /\ task' = [task EXCEPT ![t].generated = TRUE, ![t].pc = "recipe_generating"]
    /\ UNCHANGED <<dbVars, histVars, now, debitVars>>

\* recipe = await ai.generate_recipe(user_input) returns; deduct_token is next
GenerateReturns(t) ==
    /\ task[t].pc = "recipe_generating"
    /\ task' = [task EXCEPT ![t].pc = "deduct_execute"]
    /\ UNCHANGED <<dbVars, histVars, limVars, debitVars>>

\* ai.generate_recipe raises: the except branch sends the error message
GenerateRaises_Unstamp(t) ==
    /\ task[t].pc = "recipe_generating"
    /\ task' = [task EXCEPT ![t].raised = TRUE, ![t].pc = "recipe_error"]
    /\ last_request_time' = [last_request_time EXCEPT ![task[t].user_id] = NoStamp]
    /\ UNCHANGED <<dbVars, histVars, now, debitVars>>

GenerateRaises(t) ==
    /\ task[t].pc = "recipe_generating"
    /\ task' = [task EXCEPT ![t].raised = TRUE, ![t].pc = "recipe_error"]
    /\ UNCHANGED <<dbVars, histVars, limVars, debitVars>>

\* success = await db.deduct_token(user_id); if not success: the "ran out" message
RecipeDebited_Deliver(t) ==
    /\ task[t].pc = "recipe_debited"
    /\ task' = [task EXCEPT ![t].pc = "sr_execute"]
    /\ UNCHANGED <<dbVars, histVars, limVars, debitVars>>

RecipeDebited(t) ==
    /\ task[t].pc = "recipe_debited"
    /\ task' = [task EXCEPT ![t].pc = IF task[t].ok THEN "sr_execute" ELSE "recipe_drained"]
    /\ UNCHANGED <<dbVars, histVars, limVars, debitVars>>

\* new_balance = await db.get_balance(user_id)
RecipeNewBalance(t) ==
    /\ task[t].pc = "recipe_newbalance"
    /\ task' = [task EXCEPT ![t].val = BalanceOf(users[task[t].user_id]),
                            ![t].pc = "recipe_reply"]
    /\ UNCHANGED <<dbVars, histVars, limVars, debitVars>>

\* the recipe and the remaining balance are sent: the request is fulfilled
RecipeReply(t) ==
    /\ task[t].pc = "recipe_reply"
    /\ task' = [task EXCEPT ![t] = Return(@)]
    /\ UNCHANGED <<dbVars, histVars, limVars, debitVars>>

\* A database call of the request raises (sqlite3.OperationalError: the file
\* is locked or unavailable); its connection closes without commit.
\* balance = await db.get_balance(user_id) is outside the try block: the
\* exception leaves the handler, which sends nothing
BalanceReadFails(t) ==
    /\ task[t].op = "recipe"
    /\ task[t].pc = "get_balance"
    /\ task' = [task EXCEPT ![t] = Return([@ EXCEPT !.failed = "get_balance"])]
    /\ UNCHANGED <<dbVars, histVars, limVars, debitVars>>

\* db.deduct_token raises before its commit took effect: the except branch
DebitFails(t) ==
    /\ task[t].op = "recipe"
    /\ task[t].pc \in {"deduct_execute", "deduct_commit"}
    /\ RollbackTx(t)
    /\ task' = [task EXCEPT ![t].ok = FALSE, ![t].failed = "deduct_token",
                            ![t].pc = "recipe_error"]
    /\ UNCHANGED <<histVars, limVars, debitVars>>

\* db.save_recipe raises, after deduct_token committed: the except branch
SaveRecipeFails(t) ==
    /\ task[t].op = "recipe"
    /\ task[t].pc \in {"sr_execute", "sr_commit"}
    /\ RollbackTx(t)
    /\ task' = [task EXCEPT ![t].failed = "save_recipe", ![t].pc = "recipe_error"]
    /\ UNCHANGED <<histVars, limVars, debitVars>>

\* new_balance = await db.get_balance(user_id) raises, after the debit and the
\* usage record were committed: the except branch
NewBalanceFails(t) ==
    /\ task[t].op = "recipe"
    /\ task[t].pc = "recipe_newbalance"
    /\ task' = [task EXCEPT ![t].failed = "get_balance", ![t].pc = "recipe_error"]
    /\ UNCHANGED <<dbVars, histVars, limVars, debitVars>>

Rejections == {"recipe_toolong", "recipe_wait", "recipe_upsell", "recipe_drained", "recipe_error"}

\* a rejection or error message is sent and the handler returns
RecipeReject(t) ==
    /\ task[t].pc \in Rejections
    /\ task' = [task EXCEPT ![t] = Return(@)]
    /\ UNCHANGED <<dbVars, histVars, limVars, debitVars>>

\* some stamp is younger than the cooldown: only then does the time matter
Cooling == \E u \in Users : last_request_time[u] # NoStamp
                            /\ now - last_request_time[u] < RATE_LIMIT_SECONDS

\* time passes
Tick(d) ==
    /\ now + d <= MaxTime
    /\ Cooling
    /\ now' = now + d
    /\ UNCHANGED <<dbVars, task, histVars, last_request_time, debitVars>>

\* ---------------------------------------------------------------------
\* The process (or the one request) dies: its connection closes uncommitted
\* ---------------------------------------------------------------------
Crash(t) ==
    /\ ~Free(t)
    /\ RollbackTx(t)
    /\ task' = [task EXCEPT ![t] = Idle]
    /\ aborted' = IF task[t].pc \in {"ups_status", "ups_commit"} /\ task[t].credited
                  THEN [aborted EXCEPT ![task[t].payment_id] = TRUE]
                  ELSE aborted
    /\ UNCHANGED <<credits, lostCredit, lastSettle, granted, debited, limVars, debitVars>>

\* ---------------------------------------------------------------------
\* The database after init_db: empty tables, no task running
\* ---------------------------------------------------------------------
Empty ==
    /\ users = [u \in Users |-> NoUser]
    /\ payments = [p \in Pids |-> NoPayment]
    /\ recipes = [u \in Users |-> 0]
    /\ txOwner = NoTask
    /\ wUsers = users
    /\ wPayments = payments
    /\ wRecipes = recipes
    /\ task = [t \in Tasks |-> Idle]
    /\ credits = [p \in Pids |-> 0]
    /\ lostCredit = [p \in Pids |-> FALSE]
    /\ lastSettle = [p \in Pids |-> ""]
    /\ aborted = [p \in Pids |-> FALSE]
    /\ granted = [u \in Users |-> 0]
    /\ debited = [u \in Users |-> 0]
    /\ last_request_time = [u \in Users |-> NoStamp]
    /\ now = 0
    /\ k0 = 0
    /\ b0 = 0

Init == Empty /\ frames = FALSE

\* the model stops granting once a balance is above MaxBalance
Headroom == \A u \in Users : users[u].tokens_balance <= MaxBalance

\* ---------------------------------------------------------------------
\* Spec: the handlers and the store's calls as concurrent tasks
\* ---------------------------------------------------------------------
StartUser == \E t \in ConcTasks, u \in ConcUsers : CallGetOrCreateUser(t, u)

StartBalance == \E t \in ConcTasks, u \in ConcUsers : CallGetBalance(t, u)

StartDeduct ==
    \E t \in ConcTasks, u \in ConcUsers :
        /\ users[u].total_recipes < MaxRecipes
        /\ CallDeductToken(t, u)

StartAddTokens ==
    \E t \in ConcTasks, u \in ConcUsers, key \in PackageKeys :
        /\ users[u].tokens_balance + PACKAGES[key].recipes <= MaxBalance
        /\ CallAddTokens(t, u, PACKAGES[key].recipes)

StartPurchase ==
    \E t \in ConcTasks, u \in ConcUsers, key \in PackageKeys, p \in Pids :
        ProcessPurchase(t, u, key, p)

StartCheckPayment ==
    \E t \in ConcTasks, u \in ConcUsers, p \in Pids, mock \in BOOLEAN, available \in BOOLEAN,
       reply \in Replies :
        CheckPayment(t, u, p, mock, available, reply)

StartWebhook ==
    \E t \in ConcTasks, event \in Events, p \in Pids \cup {NoPid}, st \in Statuses,
       u \in ConcUsers \cup {NoUid} :
        YookassaWebhook(t, event, p, st, u)

StepDeduct == \E t \in Tasks : DeductExecute(t) \/ DeductCommit(t)

StepBalance == \E t \in Tasks : GetBalance(t)

StepUser ==
    \E t \in Tasks :
        GocuSelect(t) \/ GocuUpdate(t) \/ GocuInsert(t) \/ GocuCommit(t) \/ GocuReselect(t)

StepAddTokens == \E t \in Tasks : AddTokensExecute(t) \/ AddTokensCommit(t)

StepSavePayment == \E t \in Tasks : SavePaymentExecute(t) \/ SavePaymentCommit(t)

StepSettle == \E t \in Tasks : UpsSelect(t) \/ UpsCredit(t) \/ UpsStatus(t) \/ UpsCommit(t)

StepNotify == \E t \in Tasks : CheckPaymentBalance(t) \/ WebhookBalance(t)

StepCrash == \E t \in Tasks : Crash(t)

Next ==
    \/ StartUser
    \/ StartBalance
    \/ StartDeduct
    \/ StartAddTokens
    \/ StartPurchase
    \/ StartCheckPayment
    \/ StartWebhook
    \/ StepDeduct
    \/ StepBalance
    \/ StepUser
    \/ StepAddTokens
    \/ StepSavePayment
    \/ StepSettle
    \/ StepNotify
    \/ StepCrash

Spec == Init /\ [][Next]_vars

\* ---------------------------------------------------------------------
\* SpecSeq: the ledger's calls one at a time, each run to its return before
\* the next starts; update_payment_status and save_payment are called with
\* every argument
\* ---------------------------------------------------------------------
\* the one caller
SeqTask == CHOOSE t \in Tasks : \A o \in Tasks : t <= o

InitSeq == Empty /\ frames = TRUE

SeqUser == \E u \in Users : CallGetOrCreateUser(SeqTask, u)

SeqBalance == \E u \in Users : CallGetBalance(SeqTask, u)

SeqSavePayment ==
    \E p \in Pids, u \in Users, key \in PackageKeys :
        /\ Headroom
        /\ CallSavePayment(SeqTask, p, u, key)

SeqSettle ==
    \E p \in Pids, st \in Statuses :
        /\ st = "pending" => Headroom
        /\ CallUpdatePaymentStatus(SeqTask, p, st)

SeqCheckPayment ==
    \E u \in Users, p \in Pids, mock \in BOOLEAN, available \in BOOLEAN, reply \in Replies :
        CheckPayment(SeqTask, u, p, mock, available, reply)

SeqWebhook ==
    \E event \in Events, p \in Pids \cup {NoPid}, st \in Statuses, u \in Users \cup {NoUid} :
        YookassaWebhook(SeqTask, event, p, st, u)

NextSeq ==
    \/ SeqUser
    \/ SeqBalance
    \/ SeqSavePayment
    \/ SeqSettle
    \/ SeqCheckPayment
    \/ SeqWebhook
    \/ StepBalance
    \/ StepUser
    \/ StepSavePayment
    \/ StepSettle
    \/ StepNotify

SpecSeq == InitSeq /\ [][NextSeq]_vars

\* ---------------------------------------------------------------------
\* SpecRecipe: recipe requests of concurrent tasks, account creation, time
\* ---------------------------------------------------------------------
TickSteps == {10, 21}

RecipeStartUser == \E t \in ConcTasks, u \in ConcUsers : CallGetOrCreateUser(t, u)

RecipeRequest == \E t \in ConcTasks, u \in ConcUsers, too_long \in BOOLEAN : Recipe(t, u, too_long)

RecipeBalance == \E t \in Tasks : GetBalance(t) \/ RecipeChecked(t) \/ RecipeNewBalance(t)

RecipeGenerate == \E t \in Tasks : RecipeMark(t) \/ GenerateReturns(t) \/ GenerateRaises(t)

RecipeDeduct == \E t \in Tasks : DeductExecute(t) \/ DeductCommit(t) \/ RecipeDebited(t)

RecipeSave == \E t \in Tasks : SaveRecipeExecute(t) \/ SaveRecipeCommit(t)

RecipeEnd == \E t \in Tasks : RecipeReply(t) \/ RecipeReject(t)

RecipeTick == \E d \in TickSteps : Tick(d)

RecipeFault ==
    \E t \in Tasks :
        BalanceReadFails(t) \/ DebitFails(t) \/ SaveRecipeFails(t) \/ NewBalanceFails(t)

NextRecipe ==
    \/ RecipeStartUser
    \/ RecipeRequest
    \/ RecipeBalance
    \/ RecipeGenerate
    \/ RecipeDeduct
    \/ RecipeSave
    \/ RecipeEnd
    \/ RecipeTick
    \/ StepUser

SpecRecipe == Init /\ [][NextRecipe]_vars

\* ---------------------------------------------------------------------
\* SpecFault: recipe requests of concurrent tasks whose database calls may
\* raise; the clock moves a whole cooldown at a time
\* ---------------------------------------------------------------------
FaultTick == Tick(RATE_LIMIT_SECONDS + 1)

NextFault ==
    \/ RecipeStartUser
    \/ RecipeRequest
    \/ RecipeBalance
    \/ RecipeGenerate
    \/ RecipeDeduct
    \/ RecipeSave
    \/ RecipeEnd
    \/ RecipeFault
    \/ FaultTick
    \/ StepUser

SpecFault == Init /\ [][NextFault]_vars

\* ---------------------------------------------------------------------
\* SpecBurst: every task sends recipe requests for one account that holds
\* its free grant, within one cooldown window (the clock stands still)
\* ---------------------------------------------------------------------
BurstUser == CHOOSE u \in Users : \A v \in Users : u <= v

\* the account after /start: get_or_create_user has inserted its row
InitBurst ==
    /\ frames = FALSE
    /\ users = [u \in Users |-> IF u = BurstUser THEN NewUser ELSE NoUser]
    /\ payments = [p \in Pids |-> NoPayment]
    /\ recipes = [u \in Users |-> 0]
    /\ txOwner = NoTask
    /\ wUsers = users
    /\ wPayments = payments
    /\ wRecipes = recipes
    /\ task = [t \in Tasks |-> Idle]
    /\ credits = [p \in Pids |-> 0]
    /\ lostCredit = [p \in Pids |-> FALSE]
    /\ lastSettle = [p \in Pids |-> ""]
    /\ aborted = [p \in Pids |-> FALSE]
    /\ granted = [u \in Users |-> 0]
    /\ debited = [u \in Users |-> 0]
    /\ last_request_time = [u \in Users |-> NoStamp]
    /\ now = 0
    /\ k0 = 0
    /\ b0 = 0

BurstRequest == \E t \in Tasks : Recipe(t, BurstUser, FALSE)

NextBurst ==
    \/ BurstRequest
    \/ RecipeBalance
    \/ RecipeGenerate
    \/ RecipeDeduct
    \/ RecipeSave
    \/ RecipeEnd

SpecBurst == InitBurst /\ [][NextBurst]_vars

\* ---------------------------------------------------------------------
\* Properties of the ledger
\* ---------------------------------------------------------------------
Settlers == {"update_payment_status", "check_payment", "webhook"}

\* task t runs (or has returned from) update_payment_status and found the record
InSettle(t) == task[t].op \in Settlers /\ task[t].found

\* ... and is past the point where the credit is decided and executed
PastCredit(t) == task[t].pc \in {"ups_status", "ups_commit", "cp_balance", "wh_balance", "done"}

\* the users table as the connection of task t sees it
ViewUsers(t) == IF txOwner = t THEN wUsers ELSE users

\* a credit UPDATE of task t for payment p sits in an open transaction
Uncommitted(t, p) ==
    /\ task[t].op \in Settlers
    /\ task[t].payment_id = p
    /\ task[t].pc \in {"ups_status", "ups_commit"}
    /\ task[t].credited

\* C2: two update_payment_status(id, succeeded) calls in a row on a pending
\* record: the first adds the record's units and amount to the owner's row
\* once, the second (started after the first committed) changes neither
\* balance nor total_spent.
C2_SettleTwice ==
    \A t \in Tasks :
        (InSettle(t) /\ PastCredit(t) /\ task[t].status = "succeeded") =>
            LET row == ViewUsers(t)[task[t].row_user]
                before == task[t].before
            IN /\ task[t].prior = "succeeded" => (row = before /\ ~task[t].credited)
               /\ (task[t].prior # "succeeded" /\ task[t].current_status = "pending"
                      /\ before.exists) =>
                     /\ row.tokens_balance = before.tokens_balance + task[t].row_count
                     /\ row.total_spent = before.total_spent + task[t].row_amount

\* the second of two settlements in a row has returned and the account holds one credit
C2_Witness ==
    \E t \in Tasks :
        /\ task[t].op = "update_payment_status"
        /\ task[t].pc = "done"
        /\ task[t].status = "succeeded"
        /\ task[t].prior = "succeeded"
        /\ task[t].before.exists
        /\ credits[task[t].payment_id] = 1
        /\ users[task[t].row_user] = task[t].before
        /\ users[task[t].row_user].tokens_balance
               = FREE_RECIPES_ON_START + task[t].row_count

\* C3: two settlements of one pending payment running concurrently (webhook
\* and "check payment"): the account is credited at most once, counting the
\* committed credits and the credit UPDATEs waiting in open transactions.
C3_ConcurrentSettleOnce ==
    \A p \in Pids :
        credits[p] + Cardinality({t \in Tasks : Uncommitted(t, p)}) <= 1

\* C4: every account's balance is an integer >= 0, in the committed database
\* and inside every open transaction.
C4_BalanceNonNegative ==
    \A u \in Users :
        /\ users[u].tokens_balance \in Nat
        /\ wUsers[u].tokens_balance \in Nat

\* a debit attempted at balance 0, after the free grant was used up, was refused
C4_Witness ==
    \E t \in Tasks :
        /\ task[t].pc = "deduct_commit"
        /\ ~task[t].ok
        /\ users[task[t].user_id].exists
        /\ users[task[t].user_id].tokens_balance = 0
        /\ users[task[t].user_id].total_recipes >= FREE_RECIPES_ON_START

\* C5: the first succeeded notification for a record created with amount A
\* and units U adds exactly U to the owner's balance and A to total_spent; a
\* second identical notification leaves both unchanged.
C5_NotificationCredits ==
    \A t \in Tasks :
        (task[t].op = "webhook" /\ InSettle(t) /\ PastCredit(t) /\ task[t].before.exists) =>
            LET row == ViewUsers(t)[task[t].row_user]
                before == task[t].before
                pkg == PACKAGES[payments[task[t].payment_id].package_key]
            IN /\ task[t].prior = "" =>
                     /\ row.tokens_balance = before.tokens_balance + pkg.recipes
                     /\ row.total_spent = before.total_spent + pkg.price
                     /\ row.total_recipes = before.total_recipes
               /\ task[t].prior = "succeeded" => row = before

\* a second notification has returned: one credit of U units and A spent, no more
C5_Witness ==
    \E t \in Tasks :
        /\ task[t].op = "webhook"
        /\ task[t].pc = "done"
        /\ task[t].found
        /\ task[t].prior = "succeeded"
        /\ credits[task[t].payment_id] = 1
        /\ users[task[t].row_user].tokens_balance
               = FREE_RECIPES_ON_START + PACKAGES.start.recipes
        /\ users[task[t].row_user].total_spent = PACKAGES.start.price

\* C6: update_payment_status(id, succeeded) after update_payment_status(id,
\* canceled) executes no credit: balance and total_spent stay as they were.
C6_SucceededAfterCanceled ==
    \A t \in Tasks :
        (InSettle(t) /\ task[t].status = "succeeded" /\ task[t].prior = "canceled") =>
            /\ task[t].pc # "ups_credit"
            /\ ~task[t].credited
            /\ ViewUsers(t)[task[t].row_user] = task[t].before

\* a late success after a cancel has returned: the status is overwritten, nothing credited
C6_Witness ==
    \E t \in Tasks :
        /\ task[t].op = "update_payment_status"
        /\ task[t].pc = "done"
        /\ task[t].status = "succeeded"
        /\ task[t].prior = "canceled"
        /\ task[t].before.exists
        /\ payments[task[t].payment_id].status = "succeeded"
        /\ credits[task[t].payment_id] = 0
        /\ users[task[t].row_user] = task[t].before

\* C7: over any sequence of update_payment_status(id, s) calls, s among
\* pending, succeeded and canceled, one record is credited at most once.
C7_RecordCreditedOnce == \A p \in Pids : credits[p] <= 1

\* C8: the credit and the status of a settlement are durable together: no
\* committed state, after a crash either, has a pending record that was
\* credited, nor a succeeded record whose credit to an existing account is
\* missing.
C8_CreditWithStatus ==
    \A p \in Pids :
        payments[p].exists =>
            /\ payments[p].status = "pending" => (credits[p] = 0 /\ ~lostCredit[p])
            /\ payments[p].status = "succeeded" => (credits[p] >= 1 \/ lostCredit[p])

\* a settlement died after its credit UPDATE: the record is pending, nothing was credited
C8_Witness ==
    \E p \in Pids :
        /\ aborted[p]
        /\ payments[p].status = "pending"
        /\ credits[p] = 0
        /\ users[payments[p].user_id].exists
        /\ users[payments[p].user_id].total_spent = 0

\* C9 as stated: get_balance returns the stored balance, and the configured
\* default FREE_RECIPES_ON_START for an account never seen.
C9_DefaultForUnseen ==
    \A t \in Tasks :
        (task[t].op = "get_balance" /\ task[t].pc = "done") =>
            task[t].val = IF task[t].before.exists
                          THEN task[t].before.tokens_balance
                          ELSE FREE_RECIPES_ON_START

\* C9 amended: get_balance returns the stored balance, and 0 for an account
\* never seen, and creates no account record.
C9_ZeroForUnseen ==
    \A t \in Tasks :
        (task[t].op = "get_balance" /\ task[t].pc = "done") =>
            /\ task[t].val = IF task[t].before.exists
                             THEN task[t].before.tokens_balance
                             ELSE 0
            /\ users[task[t].user_id] = task[t].before
            /\ wUsers = users

\* get_balance has returned 0 for an account that has no row, and still has none
C9_Witness ==
    \E t \in Tasks :
        /\ task[t].op = "get_balance"
        /\ task[t].pc = "done"
        /\ ~task[t].before.exists
        /\ task[t].val = 0
        /\ ~users[task[t].user_id].exists
        /\ \E u \in Users : users[u].exists

\* ---------------------------------------------------------------------
\* Properties of the usage orchestrator
\* ---------------------------------------------------------------------
\* positions of a request after the balance check let it through
PaidWork == {"recipe_thinking", "recipe_generating", "deduct_execute", "deduct_commit",
             "recipe_debited", "sr_execute", "sr_commit", "recipe_newbalance",
             "recipe_reply", "recipe_drained", "recipe_error"}

\* C10: a new account starts with FREE_RECIPES_ON_START; each debit takes one
\* from it, so after that many fulfilled requests the balance is 0; a request
\* that reads balance 0 is rejected at the balance check: it never reaches the
\* generation call nor the debit.
C10_FreeTrial ==
    /\ \A u \in Users :
          users[u].exists =>
              /\ users[u].tokens_balance + users[u].total_recipes = FREE_RECIPES_ON_START
              /\ recipes[u] <= users[u].total_recipes
              /\ recipes[u] = FREE_RECIPES_ON_START => users[u].tokens_balance = 0
    /\ \A t \in Tasks :
          task[t].op = "recipe" =>
              /\ task[t].pc \in PaidWork => task[t].balance > 0
              /\ task[t].pc = "recipe_upsell" =>
                    (task[t].balance <= 0 /\ ~task[t].generated /\ ~task[t].ok)

\* the free grant is used up by fulfilled requests and the next request is being refused
C10_Witness ==
    \E t \in Tasks :
        /\ task[t].op = "recipe"
        /\ task[t].pc = "recipe_upsell"
        /\ task[t].balance = 0
        /\ users[task[t].user_id].exists
        /\ users[task[t].user_id].tokens_balance = 0
        /\ users[task[t].user_id].total_recipes = FREE_RECIPES_ON_START
        /\ recipes[task[t].user_id] = FREE_RECIPES_ON_START
        /\ \A o \in Tasks \ {t} : Free(o)

\* the request of task t is on the path of a generation call that raised
GenerationFailed(t) == task[t].op = "recipe" /\ task[t].raised

\* C11: the generation call raises: the request goes to the error message
\* with no debit attempted and no transaction open, the step that raises and
\* the step that sends the message change neither an account (balance, usage
\* counter), nor the recipes table, nor the rate-limit stamp, which stays set.
C11_GenerationFailure ==
    [][\A t \in Tasks :
         /\ GenerationFailed(t)' =>
               /\ task'[t].pc = "recipe_error"
               /\ task'[t].generated
               /\ ~task'[t].ok
               /\ txOwner' # t
               /\ last_request_time'[task'[t].user_id] # NoStamp
               /\ last_request_time'[task'[t].user_id] <= now'
         /\ ((GenerationFailed(t) \/ GenerationFailed(t)') /\ task'[t] # task[t]) =>
               UNCHANGED <<users, payments, recipes, wUsers, wPayments, wRecipes,
                           last_request_time>>
      ]_vars

\* a generation call raised for an account that holds its whole free grant: nothing was taken
C11_Witness ==
    \E t \in Tasks :
        /\ GenerationFailed(t)
        /\ task[t].pc = "recipe_error"
        /\ users[task[t].user_id].exists
        /\ users[task[t].user_id].tokens_balance = task[t].balance
        /\ users[task[t].user_id].total_recipes = 0
        /\ recipes[task[t].user_id] = 0
        /\ last_request_time[task[t].user_id] = now

\* ---------------------------------------------------------------------
\* Properties of the rate limiter
\* ---------------------------------------------------------------------
\* C12: check_rate_limit is 0 for an account with no recorded request and
\* once RATE_LIMIT_SECONDS have passed since the recorded one, and
\* (RATE_LIMIT_SECONDS - elapsed) + 1 before that; with the cooldown of 30, a
\* request recorded at 0 waits 21 at time 10 and 0 at time 31; a request is
\* turned away with that wait exactly when it is positive.
C12_RateLimitWait ==
    /\ \A u \in Users :
          LET last == last_request_time[u]
              wait_seconds == check_rate_limit(u)
          IN /\ last = NoStamp => wait_seconds = 0
             /\ (last # NoStamp /\ now - last >= RATE_LIMIT_SECONDS) => wait_seconds = 0
             /\ (last # NoStamp /\ now - last < RATE_LIMIT_SECONDS) =>
                    wait_seconds = (RATE_LIMIT_SECONDS - (now - last)) + 1
             /\ (RATE_LIMIT_SECONDS = 30 /\ last = 0 /\ now = 10) => wait_seconds = 21
             /\ (RATE_LIMIT_SECONDS = 30 /\ last = 0 /\ now = 31) => wait_seconds = 0
    /\ \A t \in Tasks :
          (task[t].op = "recipe" /\ task[t].pc = "recipe_wait") =>
              /\ task[t].val \in 2..(RATE_LIMIT_SECONDS + 1)
              /\ last_request_time[task[t].user_id] # NoStamp

\* a request recorded at 0 is followed by one at 10, which is told to wait 21 seconds
C12_Witness ==
    \E t \in Tasks :
        /\ task[t].op = "recipe"
        /\ task[t].pc = "recipe_wait"
        /\ last_request_time[task[t].user_id] = 0
        /\ now = 10
        /\ task[t].val = 21
        /\ check_rate_limit(task[t].user_id) = 21

\* 31 seconds after the request recorded at 0 the account is let through again
C12_WitnessAfter ==
    \E u \in Users : last_request_time[u] = 0 /\ now = 31 /\ check_rate_limit(u) = 0

\* the request of task t had its debit refused after the generation returned
Drained(t) == task[t].op = "recipe" /\ task[t].pc = "recipe_drained"

\* task t takes a step
Moves(t) == task'[t] # task[t]

\* C13: generation succeeded and deduct_token returned false: the refused
\* UPDATE and its commit change no row, the request goes to the "ran out"
\* message and returns; nothing is delivered, no usage record is written, no
\* balance changes and nothing is done to compensate.
C13_DrainedRejected ==
    [][\A t \in Tasks :
         task[t].op = "recipe" =>
           /\ (task[t].pc = "deduct_execute" /\ Moves(t) /\ ~task'[t].ok) =>
                 (wUsers' = wUsers /\ users' = users)
           /\ (task[t].pc = "deduct_commit" /\ Moves(t) /\ ~task[t].ok) =>
                 (users' = users /\ recipes' = recipes)
           /\ (task[t].pc = "recipe_debited" /\ Moves(t) /\ ~task[t].ok) =>
                 /\ task'[t].pc = "recipe_drained"
                 /\ UNCHANGED <<dbVars, last_request_time>>
           /\ (Drained(t) /\ Moves(t)) =>
                 /\ task'[t].pc \in {"idle", "done"}
                 /\ UNCHANGED <<dbVars, last_request_time>>
           /\ Drained(t)' =>
                 (task'[t].generated /\ ~task'[t].ok /\ txOwner' # t)
      ]_vars

\* a request that read balance 1 was generated, found the balance drained and is being refused
C13_Witness ==
    \E t \in Tasks :
        /\ Drained(t)
        /\ task[t].generated
        /\ task[t].balance = 1
        /\ users[task[t].user_id].tokens_balance = 0
        /\ recipes[task[t].user_id] <= users[task[t].user_id].total_recipes

\* positions of a request between its successful debit and its reply
Fulfilling == {"sr_execute", "sr_commit", "recipe_newbalance", "recipe_reply"}

\* the requests in flight that read balance b at the balance check and whose debit succeeded
PaidAmong(b) ==
    {t \in Tasks : task[t].op = "recipe" /\ task[t].balance = b /\ task[t].ok}

\* C14: a request writes its usage record and delivers only after its own
\* deduct_token returned true; the usage records of an account never exceed
\* its debits, nor the credits it held; of the concurrent requests that
\* passed the balance check at balance 1, at most one is paid for.
C14_FulfilledOnlyIfPaid ==
    /\ \A t \in Tasks :
          (task[t].op = "recipe" /\ task[t].pc \in Fulfilling) =>
              (task[t].ok /\ task[t].generated /\ task[t].balance > 0)
    /\ \A u \in Users :
          /\ wRecipes[u] <= users[u].total_recipes
          /\ recipes[u] <= wRecipes[u]
          /\ users[u].total_recipes <= FREE_RECIPES_ON_START
    /\ Cardinality(PaidAmong(1)) <= 1

\* two concurrent requests passed the check at balance 1: one is being delivered, the other refused
C14_Witness ==
    \E t1, t2 \in Tasks :
        /\ task[t1].op = "recipe" /\ task[t2].op = "recipe"
        /\ task[t1].user_id = task[t2].user_id
        /\ task[t1].balance = 1 /\ task[t2].balance = 1
        /\ task[t1].pc = "recipe_reply" /\ task[t1].ok
        /\ task[t2].pc = "recipe_drained" /\ ~task[t2].ok
        /\ users[task[t1].user_id].tokens_balance = 0
        /\ recipes[task[t1].user_id] = FREE_RECIPES_ON_START

\* ---------------------------------------------------------------------
\* Properties of the payment check and the notification
\* ---------------------------------------------------------------------
\* the handler of task t has returned, and it had the provider's word that
\* payment p is canceled: polled by check_payment or pushed to the webhook
ToldCanceled(t, p) ==
    /\ task[t].pc = "done"
    /\ task[t].payment_id = p
    /\ \/ task[t].op = "check_payment" /\ task[t].reply = "canceled"
       \/ task[t].op = "webhook" /\ task[t].status = "canceled"

\* C15: once the provider has reported canceled for a payment, polled or
\* pushed, and the handler has returned, the payment's record is no longer
\* pending.
C15_CanceledRecorded ==
    \A t \in Tasks, p \in Pids :
        (ToldCanceled(t, p) /\ payments[p].exists) => payments[p].status # "pending"

\* C16: a settlement for an id without a record changes nothing in the
\* database, and check_payment goes on to its "payment succeeded" message
\* only when the record was found.
C16_NotFoundPending ==
    [][\A t \in Tasks :
         /\ (task[t].op \in Settlers /\ task[t].pc = "ups_select" /\ Moves(t)
               /\ ~task'[t].found) => UNCHANGED dbVars
         /\ (task'[t].op = "check_payment" /\ task'[t].pc = "cp_balance") => task'[t].found
      ]_vars

\* ---------------------------------------------------------------------
\* Properties of the request under storage failures
\* ---------------------------------------------------------------------
\* the request of task t is about to send the "token not charged" error
\* message because one of its database calls raised
StorageFailed(t) ==
    task[t].op = "recipe" /\ task[t].pc = "recipe_error" /\ task[t].failed # ""

\* C17: when a database call of a request raises, the request has changed
\* nothing: its own debit is not committed (balance and usage counter are as
\* they were) and no usage record of it is written, so the error message
\* "token not charged" is sent only when no token was charged.
C17_NoPartialChange ==
    \A t \in Tasks : StorageFailed(t) => (~task[t].ok /\ txOwner # t)

\* ---------------------------------------------------------------------
\* Properties of the rate limiter under concurrent requests
\* ---------------------------------------------------------------------
\* the requests in flight for account u that passed the rate-limit check
\* and for which the generation call was made
Generating(u) ==
    {t \in Tasks : task[t].op = "recipe" /\ task[t].user_id = u /\ task[t].generated}

\* C18: within one cooldown window, of the concurrent requests of an account
\* with a positive balance at most one beyond the first passes the
\* rate-limit check and reaches the generation call.
C18_OneExtraRequest ==
    \A u \in Users : Cardinality(Generating(u)) <= 2

\* ---------------------------------------------------------------------
\* Properties of payment creation
\* ---------------------------------------------------------------------
\* C19: save_payment for an id, whether or not the id already has a record:
\* when it returns, the id's one record holds the new account, package,
\* amount and units with status pending; none of its steps changes an
\* account's row.
C19_SavePaymentReplaces ==
    [][\A t \in Tasks :
         /\ (task[t].op = "save_payment" /\ Moves(t)) =>
               (users' = users /\ wUsers' = wUsers)
         /\ (task'[t].op = "save_payment" /\ task'[t].pc = "done") =>
               /\ payments'[task'[t].payment_id]
                      = PaymentRow(task'[t].user_id, task'[t].package_key)
               /\ payments'[task'[t].payment_id].status = "pending"
               /\ users'[task'[t].user_id] = task'[t].before
      ]_vars

\* an id whose record was settled for one account now names a pending record
\* of another; the first account keeps what it was credited
C19_Witness ==
    \E t \in Tasks, v \in Users :
        /\ task[t].op = "save_payment"
        /\ task[t].pc = "done"
        /\ v # task[t].user_id
        /\ users[v].total_spent = PACKAGES.start.price
        /\ users[v].tokens_balance = FREE_RECIPES_ON_START + PACKAGES.start.recipes
        /\ payments[task[t].payment_id].user_id = task[t].user_id
        /\ payments[task[t].payment_id].status = "pending"

\* the check of task t asked the provider and the call raised
ProviderFailed(t) == task[t].op = "check_payment" /\ task[t].reply = "error"

\* C20: the provider call of a payment check raises: check_payment_status
\* answers pending, check_payment returns without calling the settlement,
\* and the call changes nothing in the database; the next check of the same
\* payment, when the provider reports succeeded for the still pending record,
\* settles it and credits the owner once.
C20_ProviderFailureRetryable ==
    [][\A t \in Tasks :
         /\ ProviderFailed(t)' =>
               /\ task'[t].status = "pending"
               /\ task'[t].pc = "done"
               /\ ~task'[t].found /\ ~task'[t].credited
         /\ (ProviderFailed(t)' /\ Moves(t)) => UNCHANGED dbVars
         /\ (task'[t].op = "check_payment" /\ task'[t].retry /\ task'[t].pc = "done"
               /\ task'[t].status = "succeeded" /\ task'[t].found
               /\ task'[t].current_status = "pending" /\ task'[t].before.exists) =>
               /\ payments'[task'[t].payment_id].status = "succeeded"
               /\ task'[t].credited
               /\ users'[task'[t].row_user].tokens_balance
                      = task'[t].before.tokens_balance + task'[t].row_count
               /\ users'[task'[t].row_user].total_spent
                      = task'[t].before.total_spent + task'[t].row_amount
      ]_vars

\* a check whose provider call failed was followed by a check that settled
\* the payment: the owner holds one credit
C20_Witness ==
    \E t \in Tasks :
        /\ task[t].op = "check_payment"
        /\ task[t].retry
        /\ task[t].pc = "done"
        /\ task[t].reply = "succeeded"
        /\ task[t].credited
        /\ credits[task[t].payment_id] = 1
        /\ payments[task[t].payment_id].status = "succeeded"
        /\ users[task[t].user_id].tokens_balance
               = FREE_RECIPES_ON_START + PACKAGES.start.recipes

\* ---------------------------------------------------------------------
\* Properties of the request's gates
\* ---------------------------------------------------------------------
\* positions of a request up to the end of its three gates: the length and
\* rate-limit rejections, the balance read, its test and the upsell rejection
Gates == {"recipe_toolong", "recipe_wait", "get_balance", "recipe_checked", "recipe_upsell"}

\* the request of task t is at (or, primed, arrives at) one of its gates
AtGate(t) == task[t].op = "recipe" /\ task[t].pc \in Gates

\* the request of task t is being rejected at one of the three gates
GateRejected(t) ==
    task[t].op = "recipe" /\ task[t].pc \in {"recipe_toolong", "recipe_wait", "recipe_upsell"}

\* C21: a request rejected at the length, rate-limit or balance gate has not
\* called the generation backend nor attempted a debit, and none of its steps
\* up to and including the rejection changes the rate-limit stamp, an
\* account's balance or usage counter, or the usage records; the stamp
\* changes only in the step of a request that passed the three gates (it
\* read a positive balance and is past the "thinking" message), that step
\* sets the stamp of the request's own account to the current time and is the
\* step that calls the generation backend.
C21_RejectedChangesNothing ==
    [][/\ \A t \in Tasks :
            /\ GateRejected(t)' =>
                  (~task'[t].generated /\ ~task'[t].ok /\ txOwner' # t)
            /\ (Moves(t) /\ (AtGate(t) \/ AtGate(t)')) =>
                  UNCHANGED <<users, payments, recipes, wUsers, wPayments, wRecipes,
                              last_request_time>>
       /\ last_request_time' # last_request_time =>
             \E t \in Tasks :
                 /\ task[t].op = "recipe"
                 /\ task[t].pc = "recipe_thinking"
                 /\ task[t].balance > 0
                 /\ ~task[t].generated
                 /\ task'[t].pc = "recipe_generating"
                 /\ task'[t].generated
                 /\ last_request_time' =
                        [last_request_time EXCEPT ![task[t].user_id] = now]
      ]_vars

\* ten seconds after a fulfilled request was recorded at 0, one request of
\* the account is turned away as too long and another by the rate limit: the
\* stamp is still 0 and the account holds what the fulfilled request left
C21_Witness ==
    \E t1, t2 \in Tasks :
        /\ task[t1].op = "recipe" /\ task[t1].pc = "recipe_toolong"
        /\ task[t2].op = "recipe" /\ task[t2].pc = "recipe_wait"
        /\ task[t1].user_id = task[t2].user_id
        /\ now = 10
        /\ last_request_time[task[t1].user_id] = 0
        /\ users[task[t1].user_id].tokens_balance = FREE_RECIPES_ON_START - 1
        /\ users[task[t1].user_id].total_recipes = 1
        /\ recipes[task[t1].user_id] = 1

\* ---------------------------------------------------------------------
\* SpecLedger: the store's calls that the program's handlers make, as
\* concurrent tasks with process death: get_or_create_user (cmd_start,
\* handle_text), get_balance, deduct_token (_generate_recipe_for_user),
\* save_payment (process_purchase) and update_payment_status (check_payment,
\* yookassa_webhook); add_tokens has no caller in the program
\* ---------------------------------------------------------------------
NextLedger ==
    \/ StartUser
    \/ StartBalance
    \/ StartDeduct
    \/ StartPurchase
    \/ StartCheckPayment
    \/ StartWebhook
    \/ StepDeduct
    \/ StepBalance
    \/ StepUser
    \/ StepSavePayment
    \/ StepSettle
    \/ StepNotify
    \/ StepCrash

SpecLedger == Init /\ [][NextLedger]_vars

\* ---------------------------------------------------------------------
\* Conservation of credits
\* ---------------------------------------------------------------------
\* C22: for every account, in the committed database, balance = the starting
\* grant + the units of the settlements that credited the account -
\* total_recipes, and total_recipes is the number of deduct_token calls for the
\* account that returned true; no step lowers total_recipes or total_spent.
C22_Conservation ==
    [][\A u \in Users :
         /\ users'[u].exists =>
               /\ users'[u].tokens_balance
                      = (FREE_RECIPES_ON_START + granted'[u]) - users'[u].total_recipes
               /\ users'[u].total_recipes = debited'[u]
         /\ users'[u].total_recipes >= users[u].total_recipes
         /\ users'[u].total_spent >= users[u].total_spent
         /\ users[u].exists => users'[u].exists
      ]_vars

\* an account was credited by a settlement and has used recipes of its free
\* grant and of the purchase: its balance is the grant plus the package minus
\* the recipes taken
C22_Witness ==
    \E u \in Users :
        /\ users[u].exists
        /\ granted[u] = PACKAGES.start.recipes
        /\ users[u].total_spent = PACKAGES.start.price
        /\ debited[u] = FREE_RECIPES_ON_START + 1
        /\ users[u].tokens_balance = PACKAGES.start.recipes - 1

\* ---------------------------------------------------------------------
\* Properties of the settlement's credit
\* ---------------------------------------------------------------------
\* C23: whenever a payment record moves from pending to succeeded, the
\* balance of the record's account grows by the record's units in the same
\* step, for every account a payment record can be created for, an account
\* without a row included.
C23_SettlementCredits ==
    [][\A p \in Pids :
         (payments[p].exists /\ payments[p].status = "pending"
             /\ payments'[p].status = "succeeded") =>
             LET u == payments[p].user_id
             IN /\ users'[u].exists
                /\ users'[u].tokens_balance
                       = users[u].tokens_balance + payments[p].recipes_count
      ]_vars

====
